---- MODULE Spec2Model ----
(***************************************************************************)
(* Model of embed/app.py: the embedding / reranking HTTP service.          *)
(*                                                                         *)
(* The state is the module's globals (ONNX_AVAILABLE, reranker_onnx,       *)
(* reranker_tokenizer, use_onnx, reranker), the exported-graph artifact on *)
(* disk (which outlives the process), the position of the module-level     *)
(* start-up code, and the HTTP exchange being served.  The handlers are    *)
(* coroutines without an await, so each one runs to completion on the      *)
(* event loop: one action per handler.                                     *)
(*                                                                         *)
(* External collaborators (onnxruntime, torch, the CrossEncoder) are       *)
(* nondeterministic: every call that can raise either succeeds or raises,  *)
(* and the tensor a session run returns has an arbitrary shape and data.   *)
(***************************************************************************)
EXTENDS Integers, Sequences, FiniteSets, TLC

\* ---------------------------------------------------------------- bounds
\* longest documents / texts list of a request
MaxDocs == 2
\* number of distinct document strings
MaxDocId == 2
\* largest rank of an output tensor
MaxRank == 3
\* largest extent of one tensor dimension
MaxDim == 3
\* largest number of elements of an output tensor
MaxElems == 4
\* logits take the values 0..MaxVal
MaxVal == 1

\* ---------------------------------------------------------------- values
None == "None"
Unbound == "unbound"
NotInvoked == 0 - 1

VARIABLES
    pc,                  \* position of the module-level code of this process
    ONNX_AVAILABLE,      \* lines 11-16
    artifact,            \* /tmp/reranker_onnx/model.onnx: "absent", "valid", "partial"
    reranker_onnx,       \* line 25
    reranker_tokenizer,  \* line 26
    reranker,            \* lines 149 / 155
    use_onnx,            \* line 145
    retval,              \* what initialize_onnx_reranker returned
    initRuns,            \* calls of initialize_onnx_reranker in this process
    found,               \* outcome of onnx_model_path.exists() in this process
    exported,            \* torch.onnx.export completed in this process
    failedAt,            \* the start-up step that raised in this process
    request,             \* the HTTP request of the current exchange
    resp,                \* its response
    output_tensor,       \* outputs[0] of the handler's session run
    branch,              \* the branch the rerank handler took
    tokenizerBatch,      \* batch size the handler gave reranker_tokenizer
    sessionBatch,        \* batch size the handler gave reranker_onnx.run
    predictBatch,        \* batch size the handler gave reranker.predict
    servedBy             \* backends that served a /rerank in this process

globals == <<ONNX_AVAILABLE, reranker_onnx, reranker_tokenizer, reranker, use_onnx>>
startup == <<retval, initRuns, found, exported, failedAt>>
exchange == <<request, resp, output_tensor, branch, tokenizerBatch, sessionBatch,
              predictBatch, servedBy>>
vars == <<pc, artifact, globals, startup, exchange>>

NoRequest == [path |-> "none", query |-> 0, documents |-> <<>>]
NoResp == [status |-> "none", scores |-> <<>>, warned |-> FALSE, error |-> "", count |-> 0]
NoTensor == [shape |-> <<>>, data |-> <<>>]

\* ---------------------------------------------------------------- inputs
DocLists == UNION {[1..n -> 1..MaxDocId] : n \in 0..MaxDocs}
\* the query string plays no part in the dispatch: one query stands for all
Queries == {1}
RerankRequests ==
    {[path |-> "/rerank", query |-> q, documents |-> d] : q \in Queries, d \in DocLists}
\* the texts of an /embed request, in the documents field; only their number matters
EmbedRequests ==
    {[path |-> "/embed", query |-> 0, documents |-> [i \in 1..n |-> 1]] : n \in 0..MaxDocs}
PlainRequests ==
    {[path |-> p, query |-> 0, documents |-> <<>>] : p \in {"/health", "/docs"}}
Requests == RerankRequests \cup EmbedRequests \cup PlainRequests

RECURSIVE Prod(_)
Prod(s) == IF s = <<>> THEN 1 ELSE Head(s) * Prod(Tail(s))

Shapes == {s \in UNION {[1..r -> 0..MaxDim] : r \in 0..MaxRank} : Prod(s) <= MaxElems}
\* what reranker_onnx.run may return as outputs[0]: any shape, any data
Tensors ==
    UNION {{[shape |-> s, data |-> d] : d \in [1..Prod(s) -> 0..MaxVal]} : s \in Shapes}

\* ---------------------------------------------------------------- start-up
Init ==
    /\ pc = "import_ort"
    /\ ONNX_AVAILABLE = Unbound
    /\ artifact = "absent"
    /\ reranker_onnx = None
    /\ reranker_tokenizer = None
    /\ reranker = Unbound
    /\ use_onnx = Unbound
    /\ retval = Unbound
    /\ initRuns = 0
    /\ found = "unchecked"
    /\ exported = FALSE
    /\ failedAt = "none"
    /\ request = NoRequest
    /\ resp = NoResp
    /\ output_tensor = NoTensor
    /\ branch = "none"
    /\ tokenizerBatch = NotInvoked
    /\ sessionBatch = NotInvoked
    /\ predictBatch = NotInvoked
    /\ servedBy = {}

\* try: import onnxruntime / except ImportError
ImportOrt ==
    /\ pc = "import_ort"
    /\ \E ok \in BOOLEAN :
        /\ ONNX_AVAILABLE' = IF ok THEN "True" ELSE "False"
        /\ failedAt' = IF ok THEN failedAt ELSE "import"
    /\ pc' = "call_init"
    /\ UNCHANGED <<artifact, reranker_onnx, reranker_tokenizer, reranker, use_onnx,
                   retval, initRuns, found, exported, exchange>>

\* the call of line 145 enters the function; if not ONNX_AVAILABLE: return False
InitEntry ==
    /\ pc = "call_init"
    /\ initRuns' = initRuns + 1
    /\ IF ONNX_AVAILABLE # "True"
          THEN retval' = "False" /\ pc' = "assign"
          ELSE retval' = retval /\ pc' = "check_exists"
    /\ UNCHANGED <<artifact, globals, found, exported, failedAt, exchange>>

\* onnx_model_path.exists(): a partially written file exists too
ArtifactExistsAlwaysExport == FALSE
ArtifactExists == artifact # "absent"

CheckExists ==
    /\ pc = "check_exists"
    /\ IF ArtifactExists
          THEN found' = "present" /\ pc' = "load_session"
          ELSE found' = "absent" /\ pc' = "load_ce"
    /\ UNCHANGED <<artifact, globals, retval, initRuns, exported, failedAt, exchange>>

\* existing artifact: reranker_onnx = ort.InferenceSession(path, ...)
LoadSession ==
    /\ pc = "load_session"
    /\ \/ /\ artifact = "valid"
          /\ reranker_onnx' = "session"
          /\ pc' = "load_tokenizer"
          /\ UNCHANGED failedAt
       \/ /\ failedAt' = "session_load"
          /\ pc' = "except"
          /\ UNCHANGED reranker_onnx
    /\ UNCHANGED <<artifact, ONNX_AVAILABLE, reranker_tokenizer, reranker, use_onnx,
                   retval, initRuns, found, exported, exchange>>

\* existing artifact: temp_ce = CrossEncoder(...); reranker_tokenizer = ...; return True
LoadTokenizer ==
    /\ pc = "load_tokenizer"
    /\ \/ /\ reranker_tokenizer' = "tokenizer"
          /\ retval' = "True"
          /\ pc' = "assign"
          /\ UNCHANGED failedAt
       \/ /\ failedAt' = "tokenizer_load"
          /\ pc' = "except"
          /\ UNCHANGED <<reranker_tokenizer, retval>>
    /\ UNCHANGED <<artifact, ONNX_AVAILABLE, reranker_onnx, reranker, use_onnx,
                   initRuns, found, exported, exchange>>

\* no artifact: temp_ce = CrossEncoder(...); pt_model.eval(); reranker_tokenizer = ...
LoadCrossEncoder ==
    /\ pc = "load_ce"
    /\ \/ /\ reranker_tokenizer' = "tokenizer"
          /\ pc' = "export"
          /\ UNCHANGED failedAt
       \/ /\ failedAt' = "cross_encoder"
          /\ pc' = "except"
          /\ UNCHANGED reranker_tokenizer
    /\ UNCHANGED <<artifact, ONNX_AVAILABLE, reranker_onnx, reranker, use_onnx,
                   retval, initRuns, found, exported, exchange>>

\* dummy tokenization, mkdir, torch.onnx.export: a failed export may leave a
\* partially written file at the path
ExportGraph ==
    /\ pc = "export"
    /\ \/ /\ artifact' = "valid"
          /\ exported' = TRUE
          /\ pc' = "create_session"
          /\ UNCHANGED failedAt
       \/ /\ artifact' \in {artifact, "partial"}
          /\ failedAt' = "export"
          /\ pc' = "except"
          /\ UNCHANGED exported
    /\ UNCHANGED <<globals, retval, initRuns, found, exchange>>

\* after the export: reranker_onnx = ort.InferenceSession(path, ...); return True
CreateSession ==
    /\ pc = "create_session"
    /\ \/ /\ reranker_onnx' = "session"
          /\ retval' = "True"
          /\ pc' = "assign"
          /\ UNCHANGED failedAt
       \/ /\ failedAt' = "session_create"
          /\ pc' = "except"
          /\ UNCHANGED <<reranker_onnx, retval>>
    /\ UNCHANGED <<artifact, ONNX_AVAILABLE, reranker_tokenizer, reranker, use_onnx,
                   initRuns, found, exported, exchange>>

\* except Exception as e: ... return False
ExceptReturnTrue == "True"
ExceptReturn == "False"

InitExcept ==
    /\ pc = "except"
    /\ retval' = ExceptReturn
    /\ pc' = "assign"
    /\ UNCHANGED <<artifact, globals, initRuns, found, exported, failedAt, exchange>>

\* use_onnx = initialize_onnx_reranker()
AssignUseOnnx ==
    /\ pc = "assign"
    /\ use_onnx' = retval
    /\ pc' = "fallback"
    /\ UNCHANGED <<artifact, ONNX_AVAILABLE, reranker_onnx, reranker_tokenizer, reranker,
                   startup, exchange>>

\* if not use_onnx: reranker = CrossEncoder(...) else: reranker = None
FallbackRerankerNever(u) == None
FallbackRerankerAlways(u) == "CrossEncoder"
FallbackReranker(u) == IF u # "True" THEN "CrossEncoder" ELSE None

\* a CrossEncoder constructor that raises here ends the process
Fallback ==
    /\ pc = "fallback"
    /\ \/ /\ reranker' = FallbackReranker(use_onnx)
          /\ pc' = "main"
       \/ /\ use_onnx # "True"
          /\ pc' = "crashed"
          /\ UNCHANGED reranker
    /\ UNCHANGED <<artifact, ONNX_AVAILABLE, reranker_onnx, reranker_tokenizer, use_onnx,
                   startup, exchange>>

\* uvicorn.run(app, ...): the server starts to accept connections
Main ==
    /\ pc = "main"
    /\ pc' = "serving"
    /\ UNCHANGED <<artifact, globals, startup, exchange>>

\* the process ends (at any point) and a new one is started: only the disk survives
ProcessExit ==
    /\ pc # "import_ort"
    /\ pc' = "import_ort"
    /\ ONNX_AVAILABLE' = Unbound
    /\ reranker_onnx' = None
    /\ reranker_tokenizer' = None
    /\ reranker' = Unbound
    /\ use_onnx' = Unbound
    /\ retval' = Unbound
    /\ initRuns' = 0
    /\ found' = "unchecked"
    /\ exported' = FALSE
    /\ failedAt' = "none"
    /\ request' = NoRequest
    /\ resp' = NoResp
    /\ output_tensor' = NoTensor
    /\ branch' = "none"
    /\ tokenizerBatch' = NotInvoked
    /\ sessionBatch' = NotInvoked
    /\ predictBatch' = NotInvoked
    /\ servedBy' = {}
    /\ UNCHANGED artifact

\* ---------------------------------------------------------------- serving
\* the server accepts connections once uvicorn.run has been reached
ServerAcceptingEarly == pc # "crashed"
ServerAccepting == pc = "serving"

\* a client's request reaches the event loop; the previous exchange is over
Receive ==
    /\ ServerAccepting
    /\ request = NoRequest \/ resp.status # "none"
    /\ \E r \in Requests : request' = r
    /\ resp' = NoResp
    /\ output_tensor' = NoTensor
    /\ branch' = "none"
    /\ tokenizerBatch' = NotInvoked
    /\ sessionBatch' = NotInvoked
    /\ predictBatch' = NotInvoked
    /\ UNCHANGED <<pc, artifact, globals, startup, servedBy>>

\* no handler declares a global: the handlers only read the module's globals
HandlerFrameDropsSession ==
    /\ reranker_onnx' = None
    /\ UNCHANGED <<pc, artifact, ONNX_AVAILABLE, reranker_tokenizer, reranker, use_onnx,
                   startup>>
HandlerFrame == UNCHANGED <<pc, artifact, globals, startup>>

Ok(scores, warned) ==
    [status |-> "ok", scores |-> scores, warned |-> warned, error |-> "", count |-> 0]
Raised(error, warned) ==
    [status |-> "error", scores |-> <<>>, warned |-> warned, error |-> error, count |-> 0]

\* the cross-encoder's relevance score of one (query, document) pair
PairScore(q, d) == 3 * q + d

\* reranker.predict(pairs).tolist(): one score per pair, in order
Predict(pairs) == [i \in 1..Len(pairs) |-> PairScore(pairs[i][1], pairs[i][2])]

\* output_tensor[:, j] of a rank-2 tensor, row-major data; IndexError if j is no column
Column(t, j) ==
    [i \in 1..t.shape[1] |-> t.data[(i - 1) * t.shape[2] + j + 1]]

Min(a, b) == IF a < b THEN a ELSE b

\* the output-shape dispatch of the exported-graph branch
ExtractScoresFirstColumn(t, n) ==
    IF Len(t.shape) = 1
    THEN Ok(t.data, FALSE)
    ELSE IF Len(t.shape) = 2
    THEN IF t.shape[2] \in {1, 2}
         THEN Ok(Column(t, 0), FALSE)
         ELSE IF t.shape[2] = 0
              THEN Raised("IndexError", TRUE)
              ELSE Ok(Column(t, 0), TRUE)
    ELSE Ok(SubSeq(t.data, 1, Min(n, Len(t.data))), TRUE)
ExtractScores(t, n) ==
    IF Len(t.shape) = 1
    THEN Ok(t.data, FALSE)
    ELSE IF Len(t.shape) = 2
    THEN IF t.shape[2] = 1
         THEN Ok(Column(t, 0), FALSE)
         ELSE IF t.shape[2] = 2
         THEN Ok(Column(t, 1), FALSE)
         ELSE IF t.shape[2] = 0
              THEN Raised("IndexError", TRUE)
              ELSE Ok(Column(t, 0), TRUE)
    ELSE Ok(SubSeq(t.data, 1, Min(n, Len(t.data))), TRUE)

\* if not request.documents: return RerankResponse(scores=[])
EmptyShortCircuitMissing(docs) == FALSE
EmptyShortCircuit(docs) == Len(docs) = 0

\* if use_onnx and reranker_onnx is not None and reranker_tokenizer is not None
UseOnnxBranchUnguarded == TRUE
UseOnnxBranch ==
    use_onnx = "True" /\ reranker_onnx # None /\ reranker_tokenizer # None

\* POST /rerank
Rerank ==
    /\ request.path = "/rerank"
    /\ resp.status = "none"
    /\ LET docs == request.documents
           n == Len(docs)
       IN IF EmptyShortCircuit(docs)
          THEN /\ resp' = Ok(<<>>, FALSE)
               /\ branch' = "empty"
               /\ UNCHANGED <<output_tensor, tokenizerBatch, sessionBatch, predictBatch,
                              servedBy>>
          ELSE IF UseOnnxBranch
          THEN /\ branch' = "onnx"
               /\ servedBy' = servedBy \cup {"onnx"}
               /\ UNCHANGED predictBatch
               /\ IF reranker_onnx = None \/ reranker_tokenizer = None
                  THEN /\ resp' = Raised("AttributeError", FALSE)
                       /\ UNCHANGED <<output_tensor, tokenizerBatch, sessionBatch>>
                  ELSE /\ tokenizerBatch' = n
                       /\ sessionBatch' = n
                       /\ \E t \in Tensors :
                            /\ output_tensor' = t
                            /\ resp' = ExtractScores(t, n)
          ELSE /\ branch' = "native"
               /\ servedBy' = servedBy \cup {"native"}
               /\ UNCHANGED <<output_tensor, tokenizerBatch, sessionBatch>>
               /\ IF reranker = "CrossEncoder"
                  THEN /\ predictBatch' = n
                       /\ resp' = Ok(Predict([i \in 1..n |-> <<request.query, docs[i]>>]),
                                     FALSE)
                  ELSE /\ resp' = Raised("AttributeError", FALSE)
                       /\ UNCHANGED predictBatch
    /\ UNCHANGED request
    /\ HandlerFrame

\* POST /embed: model.encode(request.texts).tolist(), one vector per text
Embed ==
    /\ request.path = "/embed"
    /\ resp.status = "none"
    /\ resp' = [Ok(<<>>, FALSE) EXCEPT !.count = Len(request.documents)]
    /\ UNCHANGED <<request, output_tensor, branch, tokenizerBatch, sessionBatch,
                   predictBatch, servedBy>>
    /\ HandlerFrame

\* GET /health
Health ==
    /\ request.path = "/health"
    /\ resp.status = "none"
    /\ resp' = Ok(<<>>, FALSE)
    /\ UNCHANGED <<request, output_tensor, branch, tokenizerBatch, sessionBatch,
                   predictBatch, servedBy>>
    /\ HandlerFrame

\* GET /docs
Docs ==
    /\ request.path = "/docs"
    /\ resp.status = "none"
    /\ resp' = Ok(<<>>, FALSE)
    /\ UNCHANGED <<request, output_tensor, branch, tokenizerBatch, sessionBatch,
                   predictBatch, servedBy>>
    /\ HandlerFrame

Next ==
    \/ ImportOrt
    \/ InitEntry
    \/ CheckExists
    \/ LoadSession
    \/ LoadTokenizer
    \/ LoadCrossEncoder
    \/ ExportGraph
    \/ CreateSession
    \/ InitExcept
    \/ AssignUseOnnx
    \/ Fallback
    \/ Main
    \/ ProcessExit
    \/ Receive
    \/ Rerank
    \/ Embed
    \/ Health
    \/ Docs

Spec == Init /\ [][Next]_vars

\* ---------------------------------------------------------------- properties
RerankDone == request.path = "/rerank" /\ resp.status # "none"
N == Len(request.documents)
NativeScores ==
    [i \in 1..N |-> PairScore(request.query, request.documents[i])]
Unexpected(sh) ==
    \/ Len(sh) \notin {1, 2}
    \/ Len(sh) = 2 /\ sh[2] \notin {1, 2}

\* C1: every /rerank over N >= 1 documents is answered with exactly N scores,
\* score i being the score of (query, documents[i]), on either backend and on
\* every branch of the output-shape dispatch.
C1_RerankCardinality ==
    (RerankDone /\ N >= 1) =>
        /\ resp.status = "ok"
        /\ Len(resp.scores) = N
        /\ branch = "native" => resp.scores = NativeScores

\* C2: a /rerank with no documents is answered with scores = [] without a
\* tokenizer call, a session run or a predict call; no call ever gets a batch
\* of size 0.
C2_EmptyNoInference ==
    /\ (RerankDone /\ N = 0) =>
        /\ resp.status = "ok"
        /\ resp.scores = <<>>
        /\ tokenizerBatch = NotInvoked
        /\ sessionBatch = NotInvoked
        /\ predictBatch = NotInvoked
    /\ tokenizerBatch # 0
    /\ sessionBatch # 0
    /\ predictBatch # 0

C2_Witness ==
    /\ RerankDone
    /\ N = 0
    /\ resp.status = "ok"
    /\ use_onnx = "True"

\* C3: a failure at any step of the exported-graph construction is caught:
\* initialize_onnx_reranker returns False, the native cross-encoder is
\* constructed, and every later /rerank over N >= 1 documents is served by the
\* native path with N scores.
C3_FallbackToNative ==
    /\ (failedAt # "none" /\ pc \in {"assign", "fallback", "main", "serving", "crashed"})
          => retval = "False"
    /\ (failedAt # "none" /\ pc \in {"main", "serving"})
          => (use_onnx = "False" /\ reranker = "CrossEncoder")
    /\ (failedAt # "none" /\ RerankDone /\ N >= 1) =>
          /\ branch = "native"
          /\ predictBatch = N
          /\ resp.status = "ok"
          /\ Len(resp.scores) = N
          /\ resp.scores = NativeScores

C3_Witness ==
    /\ failedAt = "session_create"
    /\ RerankDone
    /\ N = 2
    /\ branch = "native"
    /\ resp.status = "ok"

\* C4 as stated: after start-up the session handle is set exactly when
\* use_onnx is true, the native handle exactly when it is false, and the two
\* are never set together.
C4_ExactlyOneHandle ==
    pc = "serving" =>
        /\ (reranker_onnx # None) <=> (use_onnx = "True")
        /\ (reranker = "CrossEncoder") <=> (use_onnx # "True")
        /\ ~(reranker_onnx # None /\ reranker = "CrossEncoder")

\* C4 as amended: after start-up exactly one backend is active: use_onnx is
\* true exactly when the session and the tokenizer are both set, and the
\* native cross-encoder is set exactly when use_onnx is false and is None
\* otherwise.  (A session or a tokenizer alone may stay behind a failed
\* initialisation, next to the native cross-encoder.)
C4_ExactlyOneActive ==
    pc = "serving" =>
        /\ use_onnx \in {"True", "False"}
        /\ (use_onnx = "True") <=> (reranker_onnx # None /\ reranker_tokenizer # None)
        /\ (use_onnx = "False") <=> (reranker = "CrossEncoder")
        /\ (use_onnx = "True") <=> (reranker = None)

C4_Witness ==
    /\ pc = "serving"
    /\ use_onnx = "False"
    /\ reranker_onnx = "session"
    /\ reranker = "CrossEncoder"

\* C5: initialize_onnx_reranker runs once per process, and a request exists
\* only when the backend selection, fallback included, is complete.
BackendDecided ==
    /\ initRuns = 1
    /\ retval \in {"True", "False"}
    /\ use_onnx = retval
    /\ reranker \in {None, "CrossEncoder"}
    /\ use_onnx = "False" => reranker = "CrossEncoder"
    /\ use_onnx = "True" => (reranker_onnx # None /\ reranker_tokenizer # None)

C5_InitBeforeServing ==
    /\ initRuns <= 1
    /\ request # NoRequest => pc = "serving"
    /\ pc = "serving" => BackendDecided

C5_Witness ==
    /\ request.path = "/rerank"
    /\ resp.status = "none"
    /\ servedBy = {}
    /\ use_onnx = "False"

\* C6: no step of a serving process changes use_onnx or a backend handle, and
\* all /rerank requests of one process are served by the same backend.
C6_HandlersKeepBackend ==
    /\ [][(pc = "serving" /\ pc' = "serving") =>
            UNCHANGED <<use_onnx, reranker_onnx, reranker_tokenizer, reranker>>]_vars
    /\ [](Cardinality(servedBy) <= 1)

C6_Witness ==
    /\ servedBy = {"onnx"}
    /\ request.path = "/rerank"
    /\ resp.status = "none"

\* C7: the shape table: a rank-1 tensor of length N gives its elements in
\* order, shape (N,1) gives column 0, shape (N,2) gives column 1.
C7_ShapeTable ==
    (branch = "onnx" /\ resp.status # "none") =>
        LET t == output_tensor
        IN /\ t.shape = <<N>> =>
                (resp.status = "ok" /\ resp.scores = t.data)
           /\ t.shape = <<N, 1>> =>
                (resp.status = "ok" /\ resp.scores = [i \in 1..N |-> t.data[i]])
           /\ t.shape = <<N, 2>> =>
                (resp.status = "ok" /\ resp.scores = [i \in 1..N |-> t.data[2 * i]])

C7_Witness ==
    /\ branch = "onnx"
    /\ resp.status = "ok"
    /\ output_tensor.shape = <<2, 2>>
    /\ output_tensor.data[1] # output_tensor.data[2]
    /\ output_tensor.data[3] # output_tensor.data[4]

\* C8: for every output tensor of an unexpected shape the handler does not
\* raise, warns, and returns exactly N scores: column 0 of a rank-2 tensor,
\* the first N elements of the flattened tensor otherwise.
C8_UnexpectedShapeWellFormed ==
    (branch = "onnx" /\ resp.status # "none" /\ output_tensor # NoTensor
        /\ Unexpected(output_tensor.shape)) =>
        /\ resp.status = "ok"
        /\ resp.warned
        /\ Len(resp.scores) = N
        /\ Len(output_tensor.shape) = 2 => resp.scores = Column(output_tensor, 0)
        /\ Len(output_tensor.shape) # 2 => resp.scores = SubSeq(output_tensor.data, 1, N)

\* C9 as stated: a start-up that finds the artifact performs no export, and
\* once an export has succeeded every later start-up with the runtime
\* available selects the exported-graph backend.
C9_ReuseSelectsOnnx ==
    /\ found = "present" => ~exported
    /\ (pc = "serving" /\ ONNX_AVAILABLE = "True" /\ found = "present"
            /\ artifact = "valid") => use_onnx = "True"

\* C9 as amended: a start-up that finds the artifact performs no export and
\* loads its session from it; a session of a start-up that did not find it is
\* loaded after an export that persisted the artifact; a persisted artifact
\* stays, and no later start-up exports again; such a start-up selects the
\* exported-graph backend exactly when no load step raises, and the native
\* backend otherwise.
C9_ConvertOnceReuse ==
    /\ [](found = "present" => ~exported)
    /\ []((found = "present" /\ reranker_onnx # None) => artifact = "valid")
    /\ [](exported => (found = "absent" /\ artifact = "valid"))
    /\ []((found = "absent" /\ reranker_onnx # None) => exported)
    /\ [][artifact = "valid" => (artifact' = "valid" /\ (exported' => exported))]_vars
    /\ []((pc = "serving" /\ ONNX_AVAILABLE = "True" /\ found = "present") =>
            /\ (use_onnx = "True") <=> (failedAt = "none")
            /\ (use_onnx = "False") <=> (failedAt \in {"session_load", "tokenizer_load"}))

C9_Witness ==
    /\ pc = "serving"
    /\ found = "present"
    /\ ~exported
    /\ use_onnx = "True"
    /\ servedBy = {"onnx"}

\* C10: the rerank handler never uses an unset handle: the exported-graph
\* branch runs with the session and the tokenizer set, the native branch with
\* the cross-encoder set, and the exported-graph branch is taken exactly when
\* the initialisation returned True.
C10_NoUnsetHandle ==
    /\ resp.error # "AttributeError"
    /\ branch = "onnx" =>
          (reranker_onnx # None /\ reranker_tokenizer # None /\ retval = "True")
    /\ branch = "native" => (reranker = "CrossEncoder" /\ retval = "False")
    /\ (RerankDone /\ N >= 1) => (branch = "onnx" <=> retval = "True")

C10_Witness ==
    /\ RerankDone
    /\ branch = "native"
    /\ reranker_onnx = "session"
    /\ resp.status = "ok"

====
